---- MODULE Spec2Model ----
(***************************************************************************)
(* A model of NWB_convert.py: the lazy TIFF chunk reader (iter_calc_tiff), *)
(* the optical channel parser (create_im_vol), the segmentation builder    *)
(* (create_vol_seg_centers) and the two acquisition drivers                *)
(* (process_NP_FOCO_Ray, process_yemini).                                  *)
(***************************************************************************)
EXTENDS Integers, Sequences, FiniteSets, TLC

VARIABLES
    \* ---- the paged source and one iter_calc_tiff generator over it
    tifPages,     \* len(tif.pages) of the functional stack
    pageShape,    \* tif.pages[0].shape, <<rows, cols>>
    numZ,         \* the numZ argument of iter_calc_tiff
    genPc,        \* "created" | "suspended" | "returned" | "raised" | "closed"
    genI,         \* the loop variable i of iter_calc_tiff: chunks yielded so far
    genOpen,      \* the TiffFile opened at line 192 has not been closed
    yielded,      \* the chunks yielded so far, in order
    \* ---- one acquisition driver
    driver,       \* "none" | "ray" | "yemini"
    pc,           \* the driver's position
    input,        \* the acquisition's input tables
    drvTifOpen,   \* the TiffFile opened at line 323 has not been closed
    dimension,    \* the dimension metadata declared on the functional series
    buffered,     \* chunks pulled into the current DataChunkIterator buffer
    written,      \* chunks persisted to the output container
    imvols,       \* imaging volumes added to the nwbfile, in order
    images,       \* images and series attached to the nwbfile, in order
    npSeg,        \* the structural (NeuroPAL) segmentation
    volsegs,      \* per-timepoint segmentations
    procvolsegs,  \* per-timepoint dNMF segmentations (process_yemini)
    rtRegion,     \* the canonical ROI table region
    responses,    \* the response series built
    outFile,      \* "absent" | "partial" | "complete"
    \* ---- a direct call of create_vol_seg_centers
    segPositions, segLabels, segResult,
    \* ---- a direct call of create_im_vol
    chanInput, chanResult

readerVars == <<tifPages, pageShape, numZ, genPc, genI, genOpen, yielded>>
driverVars == <<driver, pc, input, drvTifOpen, dimension, buffered, written,
                imvols, images, npSeg, volsegs, procvolsegs, rtRegion,
                responses, outFile>>
segVars == <<segPositions, segLabels, segResult>>
chanVars == <<chanInput, chanResult>>
vars == <<readerVars, driverVars, segVars, chanVars>>

\* Python's None, an exception that left a call, and a Python list, as records
\* (so that any two values of a variable can be compared).
None == [kind |-> "none"]
Error(e) == [kind |-> "error", error |-> e]
List(items) == [kind |-> "list", items |-> items]

(***************************************************************************)
(* Bounds of the model.                                                    *)
(***************************************************************************)
MaxPages == 7
MaxZ == 3
MaxDim == 2
MaxN == 2
MaxTokens == 4
MaxBlobs == 3
MaxTp == 2
MaxChunks == 11

\* numz = 12 (line 328) and buffer_size = 10 (line 333)
NumZRay == 12
BufferSize == 10

PageShapes == (1..MaxDim) \X (1..MaxDim)

(***************************************************************************)
(* iter_calc_tiff (lines 189-212).                                         *)
(***************************************************************************)

\* A reader whose loop runs one timepoint too far.
TimepointsOffByOne(pages, z) == pages \div z + 1

\* line 196: timepoints = int(pages/numZ)
Timepoints(pages, z) == pages \div z

\* line 202: np.zeros((pageshape[1], pageshape[0], numZ))
ChunkShape(shape, z) == <<shape[2], shape[1], z>>

\* A reader that indexes the pages without the stride of numZ.
PlanePageNoStride(i, j, z) == i + j

\* lines 203-205: plane j of chunk i is the transpose of page i*numZ+j
PlanePage(i, j, z) == i * z + j

\* One chunk as yielded at line 208: its shape, and for each plane j (1-based
\* here, j-1 in the code) the source page whose transpose it holds.
MakeChunk(i, shape, z) ==
    [shape  |-> ChunkShape(shape, z),
     planes |-> [j \in 1..z |-> PlanePage(i, j - 1, z)]]

\* The content of the source: the sample at row r, column c of page p (all
\* from 0), a different 16-bit number for every sample.
PageValue(p, r, c) == p * 100 + r * 10 + c

\* tif.pages[p].asarray() (line 204): a rows x cols array
PageArray(p, shape) ==
    [r \in 0..shape[1] - 1, c \in 0..shape[2] - 1 |-> PageValue(p, r, c)]

\* np.transpose of a rows x cols array (line 204): a cols x rows array
Transpose(img, shape) ==
    [x \in 0..shape[2] - 1, y \in 0..shape[1] - 1 |-> img[y, x]]

\* .astype('uint16') (line 208)
AsUint16(v) == v % 65536

\* lines 202-208: the samples of a yielded chunk, tpoint[:,:,j] being the
\* transposed page of plane j
ChunkData(chunk, shape) ==
    [x \in 0..chunk.shape[1] - 1, y \in 0..chunk.shape[2] - 1,
     j \in 0..chunk.shape[3] - 1 |->
        AsUint16(Transpose(PageArray(chunk.planes[j + 1], shape), shape)[x, y])]

\* The generator body is entered by the first next(): TiffFile(filename) at
\* line 192 opens the handle; no try/finally guards what follows.
\* ioOk = FALSE is an error raised while the pages of the chunk are read
\* (tif.pages[...].asarray() at line 204): it propagates out of the generator
\* and skips tif.close() at line 210.
GenResume(ioOk) ==
    /\ genPc \in {"created", "suspended"}
    /\ IF genI < Timepoints(tifPages, numZ)
       THEN IF ioOk
            THEN /\ yielded' = Append(yielded, MakeChunk(genI, pageShape, numZ))
                 /\ genI' = genI + 1
                 /\ genPc' = "suspended"
                 /\ genOpen' = TRUE
            ELSE /\ genPc' = "raised"
                 /\ genOpen' = TRUE
                 /\ UNCHANGED <<yielded, genI>>
       ELSE \* the for loop is over: tif.close() at line 210, then return
            /\ genPc' = "returned"
            /\ genOpen' = FALSE
            /\ UNCHANGED <<yielded, genI>>
    /\ UNCHANGED <<tifPages, pageShape, numZ>>

\* The consumer drops the generator before exhausting it: GeneratorExit is
\* raised at the yield of line 208 (or the body never runs); tif.close() at
\* line 210 is not on that path.
GenClose ==
    /\ genPc \in {"created", "suspended"}
    /\ genPc' = "closed"
    /\ UNCHANGED <<tifPages, pageShape, numZ, genI, genOpen, yielded>>

ReaderInit(pages, shape, z) ==
    /\ tifPages = pages
    /\ pageShape = shape
    /\ numZ = z
    /\ genPc = "created"
    /\ genI = 0
    /\ genOpen = FALSE
    /\ yielded = <<>>

DriverIdle ==
    /\ driver = "none"
    /\ pc = "idle"
    /\ input = None
    /\ drvTifOpen = FALSE
    /\ dimension = <<>>
    /\ buffered = 0
    /\ written = 0
    /\ imvols = <<>>
    /\ images = <<>>
    /\ npSeg = None
    /\ volsegs = <<>>
    /\ procvolsegs = <<>>
    /\ rtRegion = None
    /\ responses = <<>>
    /\ outFile = "absent"

SegIdle ==
    /\ segPositions = None
    /\ segLabels = None
    /\ segResult = None

ChanIdle ==
    /\ chanInput = <<>>
    /\ chanResult = None

(***************************************************************************)
(* A consumer iterating iter_calc_tiff(filename, numZ) directly.           *)
(***************************************************************************)
ConsumerNext ==
    /\ \E ioOk \in BOOLEAN : GenResume(ioOk)
    /\ UNCHANGED <<driverVars, segVars, chanVars>>

ConsumerAbandon ==
    /\ GenClose
    /\ UNCHANGED <<driverVars, segVars, chanVars>>

InitReader ==
    /\ \E pages \in 1..MaxPages, shape \in PageShapes, z \in 1..MaxZ :
          ReaderInit(pages, shape, z)
    /\ DriverIdle
    /\ SegIdle
    /\ ChanIdle

NextReader == ConsumerNext \/ ConsumerAbandon

SpecReader == InitReader /\ [][NextReader]_vars

(***************************************************************************)
(* create_vol_seg_centers (lines 126-166).                                 *)
(*                                                                         *)
(* Coordinates are held in quarters: the number q stands for q/4, so that  *)
(* fractional coordinates (1.25, 1.75) are inputs.  A numpy array is       *)
(* [ndim |-> 2, rows |-> <<row, ...>>] or, after np.squeeze has removed a  *)
(* length-1 axis, [ndim |-> 1, vec |-> row].                               *)
(***************************************************************************)
CoordVals == {0, 5, 7}
Rows == CoordVals \X CoordVals \X CoordVals
LabelVals == {"", "AVAL"}

Array2(rows) == [ndim |-> 2, rows |-> rows]
Array1(vec) == [ndim |-> 1, vec |-> vec]

\* positions.shape[0]
Shape0(a) == IF a.ndim = 2 THEN Len(a.rows) ELSE Len(a.vec)

\* np.squeeze of an (N, 3) array: the N axis goes when N = 1
Squeeze(a) == IF a.ndim = 2 /\ Len(a.rows) = 1 THEN Array1(a.rows[1]) ELSE a

\* np.uint(x) of a non-negative number: the fractional part is discarded
Uint(q) == q \div 4

\* line 151: the single entry of one ROI's voxel_mask
VoxelEntry(row) == <<Uint(row[1]), Uint(row[2]), Uint(row[3]), 1>>

\* A builder that walks the rows from the last to the first.
RoisOfReversed(rows) ==
    [i \in 1..Len(rows) |-> <<VoxelEntry(rows[Len(rows) + 1 - i])>>]

\* lines 145-153: one add_roi per row, in row order, each with a one-entry mask
RoisOf(rows) == [i \in 1..Len(rows) |-> <<VoxelEntry(rows[i])>>]

\* The segmentation table as a function from column name to column data.
\* lines 155-163: the ID_labels column is added only in the else branch; the
\* list of empty strings built at line 156 is bound to the local name and
\* never added to the table.
\* A one-dimensional positions array fails at positions[i,0] (line 147).
CreateVolSegCenters(positions, labels) ==
    IF positions.ndim # 2
    THEN IF Shape0(positions) > 0
         THEN Error("IndexError")
         ELSE [voxel_mask |-> <<>>]
    ELSE IF labels = None
         THEN [voxel_mask |-> RoisOf(positions.rows)]
         ELSE [voxel_mask |-> RoisOf(positions.rows), ID_labels |-> labels.items]

IsSeg(r) == r \notin {None, Error("IndexError")}

SeqsUpTo(S, n) == UNION {[1..k -> S] : k \in 0..n}

CallCreateVolSegCenters ==
    /\ segPositions # None
    /\ segResult = None
    /\ segResult' = CreateVolSegCenters(segPositions, segLabels)
    /\ UNCHANGED <<segPositions, segLabels, readerVars, driverVars, chanVars>>

ReaderIdle ==
    /\ tifPages = 0
    /\ pageShape = <<0, 0>>
    /\ numZ = 0
    /\ genPc = "idle"
    /\ genI = 0
    /\ genOpen = FALSE
    /\ yielded = <<>>

InitSeg ==
    /\ \E rows \in SeqsUpTo(Rows, MaxN) :
          /\ segPositions = Array2(rows)
          /\ segLabels \in {None} \cup {List(l) : l \in [1..Len(rows) -> LabelVals]}
    /\ segResult = None
    /\ ReaderIdle
    /\ DriverIdle
    /\ ChanIdle

NextSeg == CallCreateVolSegCenters

SpecSeg == InitSeg /\ [][NextSeg]_vars

(***************************************************************************)
(* create_im_vol (lines 68-111).                                           *)
(*                                                                         *)
(* A string is a tuple of one-character strings.                           *)
(***************************************************************************)
Digits == {"0", "1", "2", "3", "4", "5", "6", "7", "8", "9"}

DigitVal(c) ==
    CASE c = "0" -> 0 [] c = "1" -> 1 [] c = "2" -> 2 [] c = "3" -> 3
      [] c = "4" -> 4 [] c = "5" -> 5 [] c = "6" -> 6 [] c = "7" -> 7
      [] c = "8" -> 8 [] c = "9" -> 9

RECURSIVE SplitFrom(_, _, _)
SplitFrom(s, k, cur) ==
    IF k > Len(s) THEN <<cur>>
    ELSE IF s[k] = "-" THEN <<cur>> \o SplitFrom(s, k + 1, <<>>)
    ELSE SplitFrom(s, k + 1, Append(cur, s[k]))

\* wave.split('-')
Split(s) == SplitFrom(s, 1, <<>>)

\* token[:-1]
DropLast(tok) == SubSeq(tok, 1, Len(tok) - 1)

\* float(tok) succeeds: over the characters used here (digits and letters),
\* exactly the non-empty all-digit strings
IsFloat(tok) == Len(tok) > 0 /\ \A k \in 1..Len(tok) : tok[k] \in Digits

RECURSIVE FloatVal(_)
FloatVal(tok) ==
    IF Len(tok) = 0 THEN 0
    ELSE 10 * FloatVal(DropLast(tok)) + DigitVal(tok[Len(tok)])

\* A channel whose emission range spans the full width on each side.
OptChanFullWidth(excite, emiss_mid, emiss_range) ==
    [excitation_lambda |-> excite,
     excitation_range2 |-> <<2 * excite - 3, 2 * excite + 3>>,
     emission_range2   |-> <<2 * emiss_mid - 2 * emiss_range,
                             2 * emiss_mid + 2 * emiss_range>>,
     emission_lambda   |-> emiss_mid]

\* lines 78-85: the channel record.  Ranges are held doubled (in half
\* nanometres) so that excite - 1.5 and emiss_range / 2 stay integers.
OptChan(excite, emiss_mid, emiss_range) ==
    [excitation_lambda |-> excite,
     excitation_range2 |-> <<2 * excite - 3, 2 * excite + 3>>,
     emission_range2   |-> <<2 * emiss_mid - emiss_range, 2 * emiss_mid + emiss_range>>,
     emission_lambda   |-> emiss_mid]

\* lines 75-85 for one wavelength code: indexing the split list past its end
\* raises IndexError, float() of a non-number raises ValueError; tokens after
\* the third are never looked at.
ParseWave(wave) ==
    LET toks == Split(wave) IN
    IF ~IsFloat(toks[1]) THEN Error("ValueError")
    ELSE IF Len(toks) < 2 THEN Error("IndexError")
    ELSE IF ~IsFloat(toks[2]) THEN Error("ValueError")
    ELSE IF Len(toks) < 3 THEN Error("IndexError")
    ELSE IF ~IsFloat(DropLast(toks[3])) THEN Error("ValueError")
    ELSE OptChan(FloatVal(toks[1]), FloatVal(toks[2]), FloatVal(DropLast(toks[3])))

IsError(r) == r \in {Error("ValueError"), Error("IndexError")}

\* lines 72-111: the loop stops at the first code that raises; otherwise the
\* imaging volume carries the channels and the codes in input order.
CreateImVol(channels) ==
    LET parsed == [k \in 1..Len(channels) |-> ParseWave(channels[k])]
        bad == {k \in 1..Len(channels) : IsError(parsed[k])}
    IN  IF bad # {}
        THEN parsed[CHOOSE k \in bad : \A m \in bad : k <= m]
        ELSE [optical_channel_plus |-> parsed, order_optical_channels |-> channels]

\* Wavelength codes: up to MaxTokens tokens joined by '-'.
Tokens ==
    {<<"4", "8", "8">>, <<"5", "2", "5">>, <<"5", "0", "m">>, <<"7", "5", "m">>,
     <<"m", "5">>}

RECURSIVE Join(_)
Join(toks) ==
    IF Len(toks) = 1 THEN toks[1]
    ELSE toks[1] \o <<"-">> \o Join(Tail(toks))

Waves == {Join(toks) : toks \in UNION {[1..k -> Tokens] : k \in 1..MaxTokens}}

\* "488-525-50m", the code of lines 310 and 512
GCaMPWave == <<"4", "8", "8", "-", "5", "2", "5", "-", "5", "0", "m">>

CallCreateImVol ==
    /\ chanInput # <<>>
    /\ chanResult = None
    /\ chanResult' = CreateImVol(chanInput)
    /\ UNCHANGED <<chanInput, readerVars, driverVars, segVars>>

InitChan ==
    /\ \E w \in Waves : chanInput \in {<<w>>, <<GCaMPWave, w>>, <<w, GCaMPWave>>}
    /\ chanResult = None
    /\ ReaderIdle
    /\ DriverIdle
    /\ SegIdle

NextChan == CallCreateImVol

SpecChan == InitChan /\ [][NextChan]_vars

(***************************************************************************)
(* The acquisition drivers: process_NP_FOCO_Ray (lines 215-413) and        *)
(* process_yemini (lines 415-613).                                         *)
(***************************************************************************)
W_405_460_50m == <<"4", "0", "5", "-", "4", "6", "0", "-", "5", "0", "m">>
W_488_605_70m == <<"4", "8", "8", "-", "6", "0", "5", "-", "7", "0", "m">>
W_488_700_75m == <<"4", "8", "8", "-", "7", "0", "0", "-", "7", "5", "m">>
W_561_700_75m == <<"5", "6", "1", "-", "7", "0", "0", "-", "7", "5", "m">>
W_561_605_70m == <<"5", "6", "1", "-", "6", "0", "5", "-", "7", "0", "m">>
W_639_700_75m == <<"6", "3", "9", "-", "7", "0", "0", "-", "7", "5", "m">>
W_405_445_45m == <<"4", "0", "5", "-", "4", "4", "5", "-", "4", "5", "m">>
W_405_445_25m == <<"4", "0", "5", "-", "4", "4", "5", "-", "2", "5", "m">>
W_488_610_40m == <<"4", "8", "8", "-", "6", "1", "0", "-", "4", "0", "m">>
W_561_731_70m == <<"5", "6", "1", "-", "7", "3", "1", "-", "7", "0", "m">>
W_488_525_25m == <<"4", "8", "8", "-", "5", "2", "5", "-", "2", "5", "m">>
W_561_610_40m == <<"5", "6", "1", "-", "6", "1", "0", "-", "4", "0", "m">>

\* lines 247-252: the channel table and RGBW_channels by acquisition date
RayChannels(early) ==
    IF early THEN <<W_405_460_50m, W_488_605_70m, GCaMPWave, W_561_700_75m, W_561_605_70m, W_639_700_75m>>
    ELSE <<W_405_460_50m, W_488_605_70m, W_488_700_75m, GCaMPWave, W_561_700_75m, W_561_605_70m, W_639_700_75m>>

RayRGBW(early) == IF early THEN <<0, 1, 3, 4>> ELSE <<0, 1, 4, 6>>

\* line 293: [channels[i] for i in RGBW_channels]
Pick(channels, idx) == [k \in 1..Len(idx) |-> channels[idx[k] + 1]]

\* lines 471-474: the channel table by prefs[3]
YeminiChannels(prefs3) ==
    IF prefs3 = 4 THEN <<W_405_445_45m, W_488_610_40m, W_561_731_70m, W_488_525_25m, W_561_610_40m>>
    ELSE <<W_405_445_25m, W_488_610_40m, W_561_731_70m, W_561_610_40m, W_488_525_25m>>

\* A table of positions of shape (N, T, 3): blob n at timepoint t.  Blobs
\* drift by 1.25 voxels per timepoint along x.
BlobRow(n, t) == <<4 * n + 5 * (t - 1), 7 * n, 5>>

PosTable(n, t) ==
    [shape |-> <<n, t>>, at |-> [i \in 1..n |-> [k \in 1..t |-> BlobRow(i, k)]]]

\* blobquant[:,t,0:3] (line 368), raw_pos[:,t,:] (line 537): an (N, 3) array
SliceT(tab, t) == Array2([i \in 1..tab.shape[1] |-> tab.at[i][t]])

\* positiondata[:,:,[1,0,2]] (lines 531-532): x and y columns exchanged
SwapXY(tab) ==
    [shape |-> tab.shape,
     at |-> [i \in 1..tab.shape[1] |->
               [k \in 1..tab.shape[2] |->
                  <<tab.at[i][k][2], tab.at[i][k][1], tab.at[i][k][3]>>]]]

\* The identity labels of the structural table: NaN replaced by '' (lines
\* 272-273, 488-489)
NpLabels(n) == List([i \in 1..n |-> IF i % 2 = 1 THEN "AVAL" ELSE ""])

NpRows(n) == Array2([i \in 1..n |-> BlobRow(i, 1)])

\* np.arange(n) as a list (lines 385, 569)
Arange(n) == [i \in 1..n |-> i - 1]

ImVolNames == {imvols[k].name : k \in 1..Len(imvols)}

Goto(from, to) == pc = from /\ pc' = to

\* create_im_vol followed by the bookkeeping of its result: a parse error
\* aborts the acquisition, otherwise the volume is added to the nwbfile
\* (line 109).
AddImVol(from, to, name, channels) ==
    /\ pc = from
    /\ LET vol == CreateImVol(channels) IN
       IF IsError(vol)
       THEN /\ pc' = "failed"
            /\ UNCHANGED imvols
       ELSE /\ pc' = to
            /\ imvols' = Append(imvols, [name |-> name, vol |-> vol])

\* create_image / create_calc_series, then attaching the result
AddImage(name, volname, container) ==
    images' = Append(images,
        [name |-> name, imaging_volume |-> volname, container |-> container])

\* A loop building one segmentation per timepoint (lines 367-374, 536-543,
\* 551-558): the next pass, for timepoint index Len(segs).
SegPass(tab, segs) ==
    CreateVolSegCenters(Squeeze(SliceT(tab, Len(segs) + 1)), None)

\* create_roi_table_region: the region is checked against the table's
\* length by the table library, an index past the end raises IndexError
CreateRegion(table, region) ==
    IF \E k \in 1..Len(region) : region[k] >= Len(table.voxel_mask)
    THEN Error("IndexError")
    ELSE [table |-> table, region |-> region]

RoiResponseSeries(name, shape, rois) ==
    [name |-> name, data_shape |-> shape, rois |-> rois]

nonDriver == <<segVars, chanVars>>

(************************** process_NP_FOCO_Ray ****************************)

\* lines 217-256: file, subject, device, scale, then the NeuroPAL volume
RayNPImVol ==
    /\ driver = "ray"
    /\ AddImVol("start", "np_image", "NeuroPALImVol", RayChannels(input.early))
    /\ UNCHANGED <<driver, input, drvTifOpen, dimension, buffered, written,
                   images, npSeg, volsegs, procvolsegs, rtRegion, responses,
                   outFile, readerVars, nonDriver>>

\* lines 258-266: the structural image is read and added as an acquisition
RayNPImage ==
    /\ driver = "ray"
    /\ Goto("np_image", "np_seg")
    /\ AddImage("NeuroPALImageRaw", "NeuroPALImVol", "acquisition")
    /\ UNCHANGED <<driver, input, drvTifOpen, dimension, buffered, written,
                   imvols, npSeg, volsegs, procvolsegs, rtRegion, responses,
                   outFile, readerVars, nonDriver>>

\* lines 268-289: the structural segmentation, with labels
RayNPSeg ==
    /\ driver = "ray"
    /\ Goto("np_seg", "proc_imvol")
    /\ npSeg' = CreateVolSegCenters(NpRows(input.npCount), NpLabels(input.npCount))
    /\ UNCHANGED <<driver, input, drvTifOpen, dimension, buffered, written,
                   imvols, images, volsegs, procvolsegs, rtRegion, responses,
                   outFile, readerVars, nonDriver>>

\* line 293: the volume of the processed image
RayProcImVol ==
    /\ driver = "ray"
    /\ AddImVol("proc_imvol", "proc_image", "ProcessedImVol",
                Pick(RayChannels(input.early), RayRGBW(input.early)))
    /\ UNCHANGED <<driver, input, drvTifOpen, dimension, buffered, written,
                   images, npSeg, volsegs, procvolsegs, rtRegion, responses,
                   outFile, readerVars, nonDriver>>

\* lines 295-308: the processed image, added to a processing module
RayProcImage ==
    /\ driver = "ray"
    /\ Goto("proc_image", "calc_imvol")
    /\ AddImage("ProcessedImage", "ProcessedImVol", "ProcessedImage")
    /\ UNCHANGED <<driver, input, drvTifOpen, dimension, buffered, written,
                   imvols, npSeg, volsegs, procvolsegs, rtRegion, responses,
                   outFile, readerVars, nonDriver>>

\* lines 310-319: the volume of the calcium series
RayCalcImVol ==
    /\ driver = "ray"
    /\ AddImVol("calc_imvol", "open_tif", "CalciumImVol", <<GCaMPWave>>)
    /\ UNCHANGED <<driver, input, drvTifOpen, dimension, buffered, written,
                   images, npSeg, volsegs, procvolsegs, rtRegion, responses,
                   outFile, readerVars, nonDriver>>

\* lines 321-328: a TiffFile of the functional stack is opened to read the
\* page shape; nothing in the function closes it
RayOpenTif ==
    /\ driver = "ray"
    /\ Goto("open_tif", "dci")
    /\ drvTifOpen' = TRUE
    /\ UNCHANGED <<driver, input, dimension, buffered, written, imvols, images,
                   npSeg, volsegs, procvolsegs, rtRegion, responses, outFile,
                   readerVars, nonDriver>>

\* One next() on the generator made by the DataChunkIterator, which reads up
\* to buffer_size chunks ahead: when it is constructed (line 330) and again
\* each time the writer asks for the next buffer (line 412).  An error raised
\* by the generator leaves the driver.
RayPullChunk ==
    /\ driver = "ray"
    /\ pc \in {"dci", "io_write"}
    /\ buffered < BufferSize
    /\ \E ioOk \in BOOLEAN : GenResume(ioOk)
    /\ buffered' = IF genPc' = "suspended" THEN buffered + 1 ELSE buffered
    /\ pc' = IF genPc' = "raised" THEN "failed" ELSE pc
    /\ UNCHANGED <<driver, input, drvTifOpen, dimension, written, imvols,
                   images, npSeg, volsegs, procvolsegs, rtRegion, responses,
                   outFile, nonDriver>>

\* lines 330-334: the first buffer is in, the constructor returns
RayBufferReady ==
    /\ driver = "ray"
    /\ buffered = BufferSize \/ genPc = "returned"
    /\ Goto("dci", "calc_series")
    /\ UNCHANGED <<driver, input, drvTifOpen, dimension, buffered, written,
                   imvols, images, npSeg, volsegs, procvolsegs, rtRegion,
                   responses, outFile, readerVars, nonDriver>>

\* lines 336-346: the functional series with its declared dimension
RayCalcSeries ==
    /\ driver = "ray"
    /\ Goto("calc_series", "gce")
    /\ dimension' = <<pageShape[1], pageShape[2], NumZRay>>
    /\ AddImage("CalciumImageSeries", "CalciumImVol", "acquisition")
    /\ UNCHANGED <<driver, input, drvTifOpen, buffered, written, imvols, npSeg,
                   volsegs, procvolsegs, rtRegion, responses, outFile,
                   readerVars, nonDriver>>

\* lines 348-363: the quantification table is read and stacked by blob
RayReadGce ==
    /\ driver = "ray"
    /\ Goto("gce", "volsegs")
    /\ UNCHANGED <<driver, input, drvTifOpen, dimension, buffered, written,
                   imvols, images, npSeg, volsegs, procvolsegs, rtRegion,
                   responses, outFile, readerVars, nonDriver>>

\* lines 365-374: one pass of the segmentation loop.  With no blob in the
\* table blobquant stays None and blobquant.shape raises (line 367).
RaySegPass ==
    /\ driver = "ray"
    /\ pc = "volsegs"
    /\ IF input.blobquant.shape[1] = 0
       THEN pc' = "failed" /\ UNCHANGED volsegs
       ELSE /\ Len(volsegs) < input.blobquant.shape[2]
            /\ LET seg == SegPass(input.blobquant, volsegs) IN
               IF IsSeg(seg)
               THEN pc' = pc /\ volsegs' = Append(volsegs, seg)
               ELSE pc' = "failed" /\ UNCHANGED volsegs
    /\ UNCHANGED <<driver, input, drvTifOpen, dimension, buffered, written,
                   imvols, images, npSeg, procvolsegs, rtRegion, responses,
                   outFile, readerVars, nonDriver>>

\* A loop that leaves before the last timepoint.
RaySegLoopEndEarly ==
    /\ driver = "ray"
    /\ input.blobquant.shape[1] > 0
    /\ Len(volsegs) >= input.blobquant.shape[2] - 1
    /\ Goto("volsegs", "rt_region")
    /\ UNCHANGED <<driver, input, drvTifOpen, dimension, buffered, written,
                   imvols, images, npSeg, volsegs, procvolsegs, rtRegion,
                   responses, outFile, readerVars, nonDriver>>

\* lines 367, 376-381: the loop is over
RaySegLoopEnd ==
    /\ driver = "ray"
    /\ input.blobquant.shape[1] > 0
    /\ Len(volsegs) = input.blobquant.shape[2]
    /\ Goto("volsegs", "rt_region")
    /\ UNCHANGED <<driver, input, drvTifOpen, dimension, buffered, written,
                   imvols, images, npSeg, volsegs, procvolsegs, rtRegion,
                   responses, outFile, readerVars, nonDriver>>

\* lines 383-386 and 567-570: the region over volsegs[0]; volsegs[0] of an
\* empty list raises IndexError
RegionStep(n) ==
    /\ pc = "rt_region"
    /\ LET r == IF volsegs = <<>> THEN Error("IndexError")
                ELSE CreateRegion(volsegs[1], Arange(n)) IN
       IF IsError(r)
       THEN pc' = "failed" /\ UNCHANGED rtRegion
       ELSE pc' = "response" /\ rtRegion' = r

RayRegion ==
    /\ driver = "ray"
    /\ RegionStep(input.blobquant.shape[1])
    /\ UNCHANGED <<driver, input, drvTifOpen, dimension, buffered, written,
                   imvols, images, npSeg, volsegs, procvolsegs, responses,
                   outFile, readerVars, nonDriver>>

\* lines 381, 388-409: gce_data = transpose(blobquant[:,:,3]) and its series
RayResponse ==
    /\ driver = "ray"
    /\ Goto("response", "io_open")
    /\ responses' = <<RoiResponseSeries("SignalCalciumImResponseSeries",
                        <<input.blobquant.shape[2], input.blobquant.shape[1]>>,
                        rtRegion)>>
    /\ UNCHANGED <<driver, input, drvTifOpen, dimension, buffered, written,
                   imvols, images, npSeg, volsegs, procvolsegs, rtRegion,
                   outFile, readerVars, nonDriver>>

\* line 411 (and 611): NWBHDF5IO(path, mode='w') creates the output file
OpenOutput ==
    /\ driver \in {"ray", "yemini"}
    /\ Goto("io_open", "io_write")
    /\ outFile' = "partial"
    /\ UNCHANGED <<driver, input, drvTifOpen, dimension, buffered, written,
                   imvols, images, npSeg, volsegs, procvolsegs, rtRegion,
                   responses, readerVars, nonDriver>>

\* line 412: the writer persists the buffer it was handed
RayWriteBuffer ==
    /\ driver = "ray"
    /\ pc = "io_write"
    /\ buffered > 0
    /\ buffered = BufferSize \/ genPc = "returned"
    /\ written' = written + buffered
    /\ buffered' = 0
    /\ UNCHANGED <<driver, pc, input, drvTifOpen, dimension, imvols, images,
                   npSeg, volsegs, procvolsegs, rtRegion, responses, outFile,
                   readerVars, nonDriver>>

\* line 412: io.write returns once the chunk stream is exhausted
RayWriteDone ==
    /\ driver = "ray"
    /\ buffered = 0
    /\ genPc = "returned"
    /\ Goto("io_write", "io_close")
    /\ UNCHANGED <<driver, input, drvTifOpen, dimension, buffered, written,
                   imvols, images, npSeg, volsegs, procvolsegs, rtRegion,
                   responses, outFile, readerVars, nonDriver>>

\* line 413 (and 613): io.close()
CloseOutput ==
    /\ driver \in {"ray", "yemini"}
    /\ Goto("io_close", "done")
    /\ outFile' = "complete"
    /\ UNCHANGED <<driver, input, drvTifOpen, dimension, buffered, written,
                   imvols, images, npSeg, volsegs, procvolsegs, rtRegion,
                   responses, readerVars, nonDriver>>

\* The stages that read input files can fail with an I/O error, which leaves
\* the driver: loadmat (244, 426-436), imread (259, 296), read_csv (269, 350,
\* 478), TiffFile (323).  Errors of the output device itself are not
\* modelled: during io.write only the chunk reader can fail.
IOStages(d) ==
    IF d = "ray"
    THEN {"start", "np_image", "np_seg", "proc_image", "open_tif", "gce"}
    ELSE {"start", "np_seg"}

StageRaises ==
    /\ driver \in {"ray", "yemini"}
    /\ pc \in IOStages(driver)
    /\ pc' = "failed"
    /\ UNCHANGED <<driver, input, drvTifOpen, dimension, buffered, written,
                   imvols, images, npSeg, volsegs, procvolsegs, rtRegion,
                   responses, outFile, readerVars, nonDriver>>

(***************************** process_yemini ******************************)

\* lines 416-476: inputs are loaded, then the NeuroPAL volume; with prefs[3]
\* neither 4 nor 3 the name channels is unbound at line 476
YemNPImVol ==
    /\ driver = "yemini"
    /\ IF input.prefs3 \in {3, 4}
       THEN AddImVol("start", "np_seg", "NeuroPALImVol", YeminiChannels(input.prefs3))
       ELSE Goto("start", "failed") /\ UNCHANGED imvols
    /\ UNCHANGED <<driver, input, drvTifOpen, dimension, buffered, written,
                   images, npSeg, volsegs, procvolsegs, rtRegion, responses,
                   outFile, readerVars, nonDriver>>

\* lines 478-504
YemNPSeg ==
    /\ driver = "yemini"
    /\ Goto("np_seg", "np_image")
    /\ npSeg' = CreateVolSegCenters(NpRows(input.npCount), NpLabels(input.npCount))
    /\ UNCHANGED <<driver, input, drvTifOpen, dimension, buffered, written,
                   imvols, images, volsegs, procvolsegs, rtRegion, responses,
                   outFile, readerVars, nonDriver>>

\* lines 506-510
YemNPImage ==
    /\ driver = "yemini"
    /\ Goto("np_image", "calc_imvol")
    /\ AddImage("NeuroPALImageRaw", "NeuroPALImVol", "acquisition")
    /\ UNCHANGED <<driver, input, drvTifOpen, dimension, buffered, written,
                   imvols, npSeg, volsegs, procvolsegs, rtRegion, responses,
                   outFile, readerVars, nonDriver>>

\* lines 512-516
YemCalcImVol ==
    /\ driver = "yemini"
    /\ AddImVol("calc_imvol", "calc_series", "CalciumImVol", <<W_488_525_25m>>)
    /\ UNCHANGED <<driver, input, drvTifOpen, dimension, buffered, written,
                   images, npSeg, volsegs, procvolsegs, rtRegion, responses,
                   outFile, readerVars, nonDriver>>

\* lines 518-529: gcdata is (T, X, Y, Z); the series is held in memory
YemCalcSeries ==
    /\ driver = "yemini"
    /\ Goto("calc_series", "volsegs")
    /\ dimension' = <<input.gcshape[2], input.gcshape[3], input.gcshape[4]>>
    /\ AddImage("CalciumImageSeries", "CalciumImVol", "acquisition")
    /\ UNCHANGED <<driver, input, drvTifOpen, buffered, written, imvols, npSeg,
                   volsegs, procvolsegs, rtRegion, responses, outFile,
                   readerVars, nonDriver>>

\* lines 532-543: one pass of the loop over raw_pos
YemSegPass ==
    /\ driver = "yemini"
    /\ pc = "volsegs"
    /\ Len(volsegs) < input.oldpos.shape[2]
    /\ LET seg == SegPass(SwapXY(input.oldpos), volsegs) IN
       IF IsSeg(seg)
       THEN pc' = pc /\ volsegs' = Append(volsegs, seg)
       ELSE pc' = "failed" /\ UNCHANGED volsegs
    /\ UNCHANGED <<driver, input, drvTifOpen, dimension, buffered, written,
                   imvols, images, npSeg, procvolsegs, rtRegion, responses,
                   outFile, readerVars, nonDriver>>

\* lines 536, 545-548
YemSegLoopEnd ==
    /\ driver = "yemini"
    /\ Len(volsegs) = input.oldpos.shape[2]
    /\ Goto("volsegs", "procvolsegs")
    /\ UNCHANGED <<driver, input, drvTifOpen, dimension, buffered, written,
                   imvols, images, npSeg, volsegs, procvolsegs, rtRegion,
                   responses, outFile, readerVars, nonDriver>>

\* lines 531, 550-558: one pass of the loop over positions
YemProcSegPass ==
    /\ driver = "yemini"
    /\ pc = "procvolsegs"
    /\ Len(procvolsegs) < input.positiondata.shape[2]
    /\ LET seg == SegPass(SwapXY(input.positiondata), procvolsegs) IN
       IF IsSeg(seg)
       THEN pc' = pc /\ procvolsegs' = Append(procvolsegs, seg)
       ELSE pc' = "failed" /\ UNCHANGED procvolsegs
    /\ UNCHANGED <<driver, input, drvTifOpen, dimension, buffered, written,
                   imvols, images, npSeg, volsegs, rtRegion, responses,
                   outFile, readerVars, nonDriver>>

\* lines 551, 560-565
YemProcSegLoopEnd ==
    /\ driver = "yemini"
    /\ Len(procvolsegs) = input.positiondata.shape[2]
    /\ Goto("procvolsegs", "rt_region")
    /\ UNCHANGED <<driver, input, drvTifOpen, dimension, buffered, written,
                   imvols, images, npSeg, volsegs, procvolsegs, rtRegion,
                   responses, outFile, readerVars, nonDriver>>

\* lines 567-570: the region is sized by positions.shape[0], the dNMF table,
\* and created on volsegs[0], built from raw_pos
YemRegion ==
    /\ driver = "yemini"
    /\ RegionStep(input.positiondata.shape[1])
    /\ UNCHANGED <<driver, input, drvTifOpen, dimension, buffered, written,
                   imvols, images, npSeg, volsegs, procvolsegs, responses,
                   outFile, readerVars, nonDriver>>

\* lines 565, 572-609: two series over the same data and region
YemResponse ==
    /\ driver = "yemini"
    /\ Goto("response", "io_open")
    /\ responses' =
          <<RoiResponseSeries("SignalCalciumImResponseSeries",
                              <<input.actshape[2], input.actshape[1]>>, rtRegion),
            RoiResponseSeries("dNMFCalciumImResponseSeries",
                              <<input.actshape[2], input.actshape[1]>>, rtRegion)>>
    /\ UNCHANGED <<driver, input, drvTifOpen, dimension, buffered, written,
                   imvols, images, npSeg, volsegs, procvolsegs, rtRegion,
                   outFile, readerVars, nonDriver>>

\* line 612: the container is written from memory
YemWrite ==
    /\ driver = "yemini"
    /\ Goto("io_write", "io_close")
    /\ UNCHANGED <<driver, input, drvTifOpen, dimension, buffered, written,
                   imvols, images, npSeg, volsegs, procvolsegs, rtRegion,
                   responses, outFile, readerVars, nonDriver>>

(***************************** one acquisition *****************************)
DriverFresh ==
    /\ pc = "start"
    /\ drvTifOpen = FALSE
    /\ dimension = <<>>
    /\ buffered = 0
    /\ written = 0
    /\ imvols = <<>>
    /\ images = <<>>
    /\ npSeg = None
    /\ volsegs = <<>>
    /\ procvolsegs = <<>>
    /\ rtRegion = None
    /\ responses = <<>>
    /\ outFile = "absent"

RayPageCounts ==
    {NumZRay * k + r : k \in {1, BufferSize, MaxChunks}, r \in {0, 5}}

InitRay ==
    /\ driver = "ray"
    /\ \E early \in BOOLEAN, np \in 0..MaxN, n \in 0..MaxBlobs, t \in 1..MaxTp :
          input = [early |-> early, npCount |-> np, blobquant |-> PosTable(n, t)]
    /\ \E pages \in RayPageCounts, shape \in PageShapes :
          ReaderInit(pages, shape, NumZRay)
    /\ DriverFresh

InitYemini ==
    /\ driver = "yemini"
    /\ \E prefs3 \in {2, 3, 4}, np \in 0..MaxN, nold \in 0..MaxBlobs,
          nnew \in 0..MaxBlobs, told \in 1..MaxTp, tnew \in 1..MaxTp,
          shape \in PageShapes :
          input = [prefs3 |-> prefs3, npCount |-> np,
                   oldpos |-> PosTable(nold, told),
                   positiondata |-> PosTable(nnew, tnew),
                   actshape |-> <<nnew, tnew>>,
                   gcshape |-> <<tnew, shape[1], shape[2], MaxZ>>]
    /\ ReaderIdle
    /\ DriverFresh

InitPipeline ==
    /\ InitRay \/ InitYemini
    /\ SegIdle
    /\ ChanIdle

NextPipeline ==
    \/ RayNPImVol \/ RayNPImage \/ RayNPSeg \/ RayProcImVol \/ RayProcImage
    \/ RayCalcImVol \/ RayOpenTif \/ RayPullChunk \/ RayBufferReady
    \/ RayCalcSeries \/ RayReadGce \/ RaySegPass \/ RaySegLoopEnd \/ RayRegion \/ RayResponse
    \/ OpenOutput \/ RayWriteBuffer \/ RayWriteDone \/ CloseOutput
    \/ StageRaises
    \/ YemNPImVol \/ YemNPSeg \/ YemNPImage \/ YemCalcImVol \/ YemCalcSeries
    \/ YemSegPass \/ YemSegLoopEnd \/ YemProcSegPass \/ YemProcSegLoopEnd
    \/ YemRegion \/ YemResponse \/ YemWrite

SpecPipeline == InitPipeline /\ [][NextPipeline]_vars

(***************************************************************************)
(* Properties of one acquisition.                                          *)
(***************************************************************************)
Finished == pc \in {"done", "failed"}

\* C3: a handle on the functional stack is released on every exit path of
\* its reader (return, error, abandonment) and no acquisition ends with one
\* still open.
C3_HandlesReleased ==
    /\ genPc \in {"returned", "raised", "closed"} => ~genOpen
    /\ Finished => (~genOpen /\ ~drvTifOpen)

\* C4: an acquisition that failed at any stage, a page read of the chunk
\* reader included, has left no output file, complete or partial.
C4_NoOutputOnFailure == pc = "failed" => outFile = "absent"

\* The number of per-timepoint segmentations the acquisition calls for
SegsWanted ==
    IF driver = "ray" THEN input.blobquant.shape[2] ELSE input.oldpos.shape[2]

ProcSegsWanted ==
    IF driver = "ray" THEN 0 ELSE input.positiondata.shape[2]

AllSegsExist ==
    Len(volsegs) = SegsWanted /\ Len(procvolsegs) = ProcSegsWanted

IsPrefix(a, b) == Len(a) <= Len(b) /\ SubSeq(b, 1, Len(a)) = a

\* C5 as claimed: once a structural image or a segmentation is attached no
\* imaging volume is built again, and the ROI region and the response series
\* are built only after all per-timepoint segmentations exist.
C5_StrictlyLinear ==
    [][/\ (images # <<>> \/ npSeg # None \/ volsegs # <<>>) => imvols' = imvols
       /\ (rtRegion' # None \/ responses' # <<>>) => AllSegsExist']_vars

\* C5 as amended: every image or segmentation is attached after the imaging
\* volume it refers to was built (volumes of later modalities are built after
\* the structural image is attached); the ROI region and the response series
\* are built only after all per-timepoint segmentations exist, the series
\* after the region, the output file after the series; nothing built is
\* removed or changed afterwards.
C5_OrderedPerVolume ==
    /\ [](driver # "none" =>
          /\ \A k \in 1..Len(images) : images[k].imaging_volume \in ImVolNames
          /\ npSeg # None => "NeuroPALImVol" \in ImVolNames
          /\ (volsegs # <<>> \/ procvolsegs # <<>>) => "CalciumImVol" \in ImVolNames
          /\ (rtRegion # None \/ responses # <<>>) => AllSegsExist
          /\ responses # <<>> => rtRegion # None
          /\ outFile # "absent" => responses # <<>>)
    /\ [][/\ IsPrefix(imvols, imvols')
          /\ IsPrefix(images, images')
          /\ IsPrefix(volsegs, volsegs')
          /\ IsPrefix(procvolsegs, procvolsegs')
          /\ npSeg # None => npSeg' = npSeg
          /\ rtRegion # None => rtRegion' = rtRegion
          /\ responses # <<>> => responses' = responses
          /\ outFile = "complete" => outFile' = "complete"]_vars

C5_Witness ==
    /\ driver = "ray"
    /\ pc = "done"
    /\ Len(imvols) = 3
    /\ Len(volsegs) = 2
    /\ responses # <<>>

\* C6: the canonical region is [0 .. N-1] for N the ROI count of the
\* segmentation of timepoint 0, on which it is created, and every response
\* series refers to that region.
C6_CanonicalRegion ==
    rtRegion # None =>
        /\ rtRegion.table = volsegs[1]
        /\ rtRegion.region = [i \in 1..Len(volsegs[1].voxel_mask) |-> i - 1]
        /\ \A k \in 1..Len(responses) : responses[k].rois = rtRegion

\* The number of detected objects N of the table each loop walks
RoisWanted ==
    IF driver = "ray" THEN input.blobquant.shape[1] ELSE input.oldpos.shape[1]

ProcRoisWanted ==
    IF driver = "ray" THEN 0 ELSE input.positiondata.shape[1]

\* C12: with N >= 1 detected objects (N = 1 included) every pass of a
\* segmentation loop builds a segmentation, and every segmentation built has
\* exactly N ROIs.
C12_SameRoiCount ==
    /\ [](driver # "none" =>
          /\ \A k \in 1..Len(volsegs) : Len(volsegs[k].voxel_mask) = RoisWanted
          /\ \A k \in 1..Len(procvolsegs) :
                Len(procvolsegs[k].voxel_mask) = ProcRoisWanted)
    /\ [][/\ (pc = "volsegs" /\ RoisWanted >= 1) => pc' # "failed"
          /\ (pc = "procvolsegs" /\ ProcRoisWanted >= 1) => pc' # "failed"]_vars

\* C13: every chunk yielded for the functional series has the shape that the
\* series declares as its dimension [numx, numy, numz].
C13_ChunkMatchesDimension ==
    (driver = "ray" /\ dimension # <<>>) =>
        \A k \in 1..Len(yielded) : yielded[k].shape = dimension

(***************************************************************************)
(* Properties of the chunk reader.                                         *)
(***************************************************************************)

\* C1: when totalPages is a multiple of Z the reader never yields more than
\* totalPages/Z chunks, has yielded exactly totalPages/Z when it finishes, and
\* every chunk has shape (X, Y, Z) = (page columns, page rows, Z).
C1_ChunkCountAndShape ==
    (genPc # "idle" /\ tifPages % numZ = 0) =>
        /\ Len(yielded) * numZ <= tifPages
        /\ (genPc = "returned" => Len(yielded) * numZ = tifPages)
        /\ \A k \in 1..Len(yielded) :
              yielded[k].shape = <<pageShape[2], pageShape[1], numZ>>

C1_Witness ==
    /\ genPc = "returned"
    /\ tifPages % numZ = 0
    /\ numZ >= 2
    /\ Len(yielded) >= 2
    /\ pageShape[1] # pageShape[2]

\* C2: when totalPages is not a multiple of Z the reader yields no chunk and
\* never completes normally (it fails with ShapeMismatch).
C2_IndivisibleRaises ==
    (genPc # "idle" /\ tifPages % numZ # 0) =>
        (yielded = <<>> /\ genPc # "returned")

\* C14: chunk i (from 0) holds in plane j the transpose of page i*Z + j,
\* chunk_i[x, y, j] = page_(i*Z+j)[y, x]; chunks come in increasing timepoint
\* order and each of the first T*Z pages is in exactly one plane of one chunk.
C14_TransposedPagesInOrder ==
    genPc # "idle" =>
        /\ \A k \in 1..Len(yielded) :
              LET data == ChunkData(yielded[k], pageShape) IN
              \A x \in 0..pageShape[2] - 1, y \in 0..pageShape[1] - 1,
                 j \in 0..numZ - 1 :
                  data[x, y, j] = PageValue((k - 1) * numZ + j, y, x)
        /\ \A p \in 0..Len(yielded) * numZ - 1 :
              Cardinality({kj \in (1..Len(yielded)) \X (1..numZ) :
                              yielded[kj[1]].planes[kj[2]] = p}) = 1
        /\ genPc = "returned" => Len(yielded) = tifPages \div numZ

C14_Witness ==
    /\ genPc = "returned"
    /\ numZ >= 2
    /\ Len(yielded) >= 2
    /\ pageShape[1] # pageShape[2]
    /\ ChunkData(yielded[2], pageShape)[pageShape[2] - 1, 0, 1]
          = PageValue(numZ + 1, 0, pageShape[2] - 1)

(***************************************************************************)
(* Properties of the segmentation builder.                                 *)
(***************************************************************************)

\* C7: the segmentation built from an N x 3 array has N ROIs, ROI i is the
\* one-entry mask made from row i, and a supplied label i is the label of ROI i.
C7_OrderPreserved ==
    (segPositions # None /\ IsSeg(segResult)) =>
        LET rows == segPositions.rows
            rois == segResult.voxel_mask
        IN  /\ Len(rois) = Len(rows)
            /\ \A i \in 1..Len(rows) :
                  /\ Len(rois[i]) = 1
                  /\ \A c \in 1..3 : rois[i][1][c] = rows[i][c] \div 4
            /\ segLabels # None =>
                  /\ Len(segResult.ID_labels) = Len(rows)
                  /\ \A i \in 1..Len(rows) :
                        segResult.ID_labels[i] = segLabels.items[i]

C7_Witness ==
    /\ segPositions # None
    /\ IsSeg(segResult)
    /\ segLabels # None
    /\ Len(segPositions.rows) = 2
    /\ segPositions.rows[1][1] \div 4 # segPositions.rows[2][1] \div 4
    /\ segLabels.items[1] # segLabels.items[2]

\* C8: every ROI has exactly one voxel-mask entry, at the integers nearest to
\* the row's coordinates, with weight 1.
C8_RoundedVoxel ==
    (segPositions # None /\ IsSeg(segResult)) =>
        \A i \in 1..Len(segPositions.rows) :
            LET mask == segResult.voxel_mask[i] IN
            /\ Len(mask) = 1
            /\ mask[1][4] = 1
            /\ \A c \in 1..3 :
                  4 * mask[1][c] - segPositions.rows[i][c] \in -2..2

\* C9: a segmentation built without labels has the ID_labels column, holding
\* the empty string for each of its N ROIs.
C9_EmptyLabels ==
    (segPositions # None /\ IsSeg(segResult) /\ segLabels = None) =>
        /\ "ID_labels" \in DOMAIN segResult
        /\ segResult.ID_labels = [i \in 1..Len(segPositions.rows) |-> ""]

(***************************************************************************)
(* Properties of the channel parser.                                       *)
(***************************************************************************)
NumericLeading(tok) == Len(tok) > 0 /\ tok[1] \in Digits

WellFormedCode(wave) ==
    /\ Len(Split(wave)) = 3
    /\ \A k \in 1..3 : NumericLeading(Split(wave)[k])

\* C10: a channel list holding a code that does not split into exactly three
\* numeric-leading tokens makes create_im_vol fail.
C10_MalformedRejected ==
    (chanResult # None /\ \E k \in 1..Len(chanInput) : ~WellFormedCode(chanInput[k]))
        => IsError(chanResult)

\* A code EXC-EMID-WIDTHu: three tokens, two numbers and a number followed
\* by a one-character unit.
WellFormedWithUnit(wave) ==
    LET toks == Split(wave) IN
    /\ Len(toks) = 3
    /\ IsFloat(toks[1])
    /\ IsFloat(toks[2])
    /\ Len(toks[3]) >= 2
    /\ IsFloat(DropLast(toks[3]))
    /\ toks[3][Len(toks[3])] \notin Digits

\* C11: for a list of well-formed codes EXC-EMID-WIDTHu create_im_vol gives,
\* per code, excitation EXC, excitation range EXC -/+ 1.5, emission midpoint
\* EMID and emission range EMID -/+ WIDTH/2 (ranges doubled here); the code
\* "488-525-50m" gives 488, [500, 550] and 525.
C11_ChannelFromCode ==
    (chanResult # None /\ \A k \in 1..Len(chanInput) : WellFormedWithUnit(chanInput[k]))
        => /\ ~IsError(chanResult)
           /\ Len(chanResult.optical_channel_plus) = Len(chanInput)
           /\ \A k \in 1..Len(chanInput) :
                 LET toks == Split(chanInput[k])
                     exc == FloatVal(toks[1])
                     emid == FloatVal(toks[2])
                     width == FloatVal(DropLast(toks[3]))
                     ch == chanResult.optical_channel_plus[k]
                 IN  /\ ch.excitation_lambda = exc
                     /\ ch.excitation_range2 = <<2 * exc - 3, 2 * exc + 3>>
                     /\ ch.emission_lambda = emid
                     /\ ch.emission_range2 = <<2 * emid - width, 2 * emid + width>>
                     /\ chanInput[k] = GCaMPWave =>
                           /\ ch.excitation_lambda = 488
                           /\ ch.emission_range2 = <<2 * 500, 2 * 550>>
                           /\ ch.emission_lambda = 525

C11_Witness ==
    /\ chanResult # None
    /\ ~IsError(chanResult)
    /\ Len(chanInput) = 2
    /\ chanInput[1] = GCaMPWave
    /\ WellFormedWithUnit(chanInput[2])
    /\ FloatVal(DropLast(Split(chanInput[2])[3])) = 75

====
